---- MODULE Spec2Model ----
(***************************************************************************)
(* Model of WhisperX_ffmpeg_2_Subtitle.py: the voice-segment reconstructor *)
(* (extract_voice_segments), the time formatters (format_time_srt,         *)
(* format_time_vtt), the per-segment alignment loop                        *)
(* (transcribe_with_whisperx), the plain-text writer of                    *)
(* save_subtitle_formats, the pipeline of main_interface.on_run_click and  *)
(* the prompt store (load_saved_prompts, save_prompt).                     *)
(*                                                                         *)
(* Time values are Python floats in the source.  Here a time is an integer *)
(* number of ticks, one tick being a tenth of a millisecond, so that       *)
(* int(x * 1000) truncates and round((x - int(x)) * 1000) rounds.          *)
(***************************************************************************)
EXTENDS Integers, Sequences, FiniteSets, TLC

VARIABLES
    \* ---- extract_voice_segments ----
    output,              \* lines of the silencedetect log (result.stderr)
    probe,               \* outcome of the ffprobe duration query
    min_duration,        \* parameter min_duration, in ticks
    line_i,              \* index of the next line of the for loop
    voice_cursor,        \* start of the current speech run, in ticks
    in_initial_silence,  \* flag of the scan
    voice_segments,      \* list of [start, end] in integer milliseconds
    ex_pc,               \* "entry", "scan", "probe", "done" or "raised"
    audio_exists,        \* os.path.exists(audio_path)
    ex_printed,          \* what extract_voice_segments printed
    \* ---- format_time_srt / format_time_vtt ----
    seconds,             \* the argument, in ticks
    srt_out,             \* result of format_time_srt, a sequence of characters
    vtt_out,             \* result of format_time_vtt
    \* ---- transcribe_with_whisperx ----
    tr_pc,               \* position in the function
    seg_i,               \* index of the segment the for loop is at
    segment_id,          \* the counter segment_id
    all_subtitles,       \* the track being assembled
    temp_files,          \* ids n such that temp_segment_n.wav exists
    result_aligned,      \* result of whisperx.align for the current segment
    models,              \* "unloaded", "loaded" or "released"
    release_count,       \* number of times the engine resources were released
    outcome,             \* per segment: how its try block ended (history)
    engine_log,          \* per segment: what the engine returned (history)
    \* ---- main_interface.on_run_click, save_subtitle_formats ----
    run_pc,              \* position in on_run_click
    run_printed,         \* what on_run_click printed
    is_drive_file,       \* the audio was picked from the mounted drive
    out_files,           \* the output files that exist
    txt_file,            \* lines of the .txt file
    \* ---- load_saved_prompts / save_prompt ----
    prompt_file,         \* content of saved_prompts.json, or Absent
    ret,                 \* what the last save_prompt returned
    saved,               \* the prompts save_prompt was called with (history)
    loaded               \* result of the last load_saved_prompts

ex_vars  == <<output, probe, min_duration, line_i, voice_cursor,
              in_initial_silence, voice_segments, ex_pc, audio_exists,
              ex_printed>>
fmt_vars == <<seconds, srt_out, vtt_out>>
tr_vars  == <<tr_pc, seg_i, segment_id, all_subtitles, temp_files,
              result_aligned, models, release_count, outcome, engine_log>>
run_vars == <<run_pc, run_printed, is_drive_file>>
out_vars == <<out_files, txt_file>>
pr_vars  == <<prompt_file, ret, saved, loaded>>
vars     == <<ex_vars, fmt_vars, tr_vars, run_vars, out_vars, pr_vars>>

-----------------------------------------------------------------------------
(* Units of time *)

TicksPerMs  == 10
TicksPerSec == 1000 * TicksPerMs

Sec(n) == n * TicksPerSec

\* int(x * 1000) for a time x >= 0 held in ticks
ToMs(x) == x \div TicksPerMs

\* ms / 1000 for an integer number of milliseconds, as a time in ticks
MsToSec(ms) == ms * TicksPerMs

-----------------------------------------------------------------------------
(* Bounds of the explored inputs *)

MaxEvents == 3

\* timestamps the detector log may carry (ticks); 20007 is 2.0007 s
EvTimes == {Sec(1), Sec(2), 20007, Sec(3), Sec(8)}

\* values of min_duration: 0 s, the default 0.5 s and 0.5005 s
MinDurations == {0, 5000, 5005}

\* outcomes of the duration probe: a float, or text that float() rejects
ProbeVals == {[ok |-> TRUE, total |-> Sec(5)],
              [ok |-> TRUE, total |-> 50005],
              [ok |-> TRUE, total |-> Sec(10)],
              [ok |-> FALSE, total |-> 0]}

\* One line of the log.  marker is the substring the line contains, ok
\* tells whether float() accepts the timestamp field, t is that timestamp.
LineVals ==
    {[marker |-> m, ok |-> TRUE, t |-> t] :
        m \in {"silence_start", "silence_end"}, t \in EvTimes}
    \cup {[marker |-> m, ok |-> FALSE, t |-> 0] :
        m \in {"silence_start", "silence_end"}}
    \cup {[marker |-> "none", ok |-> FALSE, t |-> 0]}

\* the lines of a log that carry an event, in order
RECURSIVE Events(_)
Events(log) ==
    IF log = <<>> THEN <<>>
    ELSE IF Head(log).marker # "none" /\ Head(log).ok
         THEN <<Head(log)>> \o Events(Tail(log))
         ELSE Events(Tail(log))

Chronological(log) ==
    LET ev == Events(log)
    IN \A i \in 1..(Len(ev) - 1) : ev[i].t <= ev[i + 1].t

SeqsUpTo(S, n) == UNION {[1..k -> S] : k \in 0..n}

Logs(n) == {log \in SeqsUpTo(LineVals, n) : Chronological(log)}

-----------------------------------------------------------------------------
(* extract_voice_segments *)

Segment(s, e) == [start |-> s, end |-> e]

\* a file the program wrote: the directory it is in and which file it is
\* ("json" is the segments file, "srt", "vtt", "tsv", "txt" the subtitle
\* files, "zip" the archive)
File(dir, name) == [dir |-> dir, name |-> name]

\* lines 153-156 and 159-162: append the interval when it is long enough
EmitIfLongMut(segs, v_start_ms, v_end_ms, mind) ==
    IF (v_end_ms - v_start_ms) >= ToMs(mind)
    THEN Append(segs, Segment(v_start_ms, v_end_ms))
    ELSE segs
EmitIfLong(segs, v_start_ms, v_end_ms, mind) ==
    IF (v_end_ms - v_start_ms) > ToMs(mind)
    THEN Append(segs, Segment(v_start_ms, v_end_ms))
    ELSE segs

\* ScanLine with the leading-silence branch emitting nothing
ScanLineMut(st, line, mind) ==
    IF line.marker = "silence_start"
    THEN IF ~line.ok
         THEN st
         ELSE IF ~st.initial
              THEN [st EXCEPT !.segs =
                       EmitIfLong(st.segs, ToMs(st.cursor), ToMs(line.t), mind)]
              ELSE [st EXCEPT !.initial = FALSE]
    ELSE IF line.marker = "silence_end"
    THEN IF ~line.ok
         THEN st
         ELSE [st EXCEPT !.cursor = line.t, !.initial = FALSE]
    ELSE st

\* One iteration of the for loop over the log lines, on the scan state
\* st = [cursor, initial, segs].
ScanLine(st, line, mind) ==
    IF line.marker = "silence_start"
    THEN IF ~line.ok
         THEN st
         ELSE IF ~st.initial
              THEN [st EXCEPT !.segs =
                       EmitIfLong(st.segs, ToMs(st.cursor), ToMs(line.t), mind)]
              ELSE [st EXCEPT !.segs = EmitIfLong(st.segs, 0, ToMs(line.t), mind),
                              !.initial = FALSE]
    ELSE IF line.marker = "silence_end"
    THEN IF ~line.ok
         THEN st
         ELSE [st EXCEPT !.cursor = line.t, !.initial = FALSE]
    ELSE st

\* TrailingRun that never closes the final run
TrailingRunMut(st, pr, mind) == st.segs

\* lines 189-197: the trailing run, skipped when the probe does not parse
TrailingRun(st, pr, mind) ==
    IF pr.ok
    THEN EmitIfLong(st.segs, ToMs(st.cursor), ToMs(pr.total), mind)
    ELSE st.segs

\* lines 143-145: the state before the first line
ScanInitMut == [cursor |-> 0, initial |-> FALSE, segs |-> <<>>]
ScanInit == [cursor |-> 0, initial |-> TRUE, segs |-> <<>>]

RECURSIVE ScanAll(_, _, _)
ScanAll(st, log, mind) ==
    IF log = <<>> THEN st
    ELSE ScanAll(ScanLine(st, Head(log), mind), Tail(log), mind)

\* the list extract_voice_segments returns
ExtractVoiceSegments(log, pr, mind) ==
    TrailingRun(ScanAll(ScanInit, log, mind), pr, mind)

ExInit ==
    /\ output \in Logs(MaxEvents)
    /\ probe \in ProbeVals
    /\ min_duration \in MinDurations
    /\ line_i = 1
    /\ voice_cursor = ScanInit.cursor
    /\ in_initial_silence = ScanInit.initial
    /\ voice_segments = ScanInit.segs
    /\ ex_pc = "scan"
    /\ audio_exists = TRUE
    /\ ex_printed = <<>>

\* lines 122-134: the existence check, then the silence detector runs and
\* its log is taken
ExtractEnterMut ==
    /\ ex_pc = "entry"
    /\ ex_pc' = "scan"
    /\ UNCHANGED <<output, probe, min_duration, line_i, voice_cursor,
                   in_initial_silence, voice_segments, audio_exists, ex_printed>>
    /\ UNCHANGED <<fmt_vars, tr_vars, run_vars, out_vars, pr_vars>>
ExtractEnter ==
    /\ ex_pc = "entry"
    /\ ex_pc' = IF audio_exists THEN "scan" ELSE "raised"
    /\ UNCHANGED <<output, probe, min_duration, line_i, voice_cursor,
                   in_initial_silence, voice_segments, audio_exists, ex_printed>>
    /\ UNCHANGED <<fmt_vars, tr_vars, run_vars, out_vars, pr_vars>>

ScanState == [cursor |-> voice_cursor, initial |-> in_initial_silence,
              segs |-> voice_segments]

\* one iteration of "for line in output.split(...)"
ScanStepMut ==
    /\ ex_pc = "scan"
    /\ line_i <= Len(output)
    /\ LET st == IF output[line_i].ok
                 THEN ScanLine(ScanState, output[line_i], min_duration)
                 ELSE [ScanState EXCEPT !.initial = FALSE]
       IN /\ voice_cursor' = st.cursor
          /\ in_initial_silence' = st.initial
          /\ voice_segments' = st.segs
    /\ line_i' = line_i + 1
    /\ UNCHANGED <<output, probe, min_duration, ex_pc, audio_exists, ex_printed>>
    /\ UNCHANGED <<fmt_vars, tr_vars, run_vars, out_vars, pr_vars>>
ScanStep ==
    /\ ex_pc = "scan"
    /\ line_i <= Len(output)
    /\ LET st == ScanLine(ScanState, output[line_i], min_duration)
       IN /\ voice_cursor' = st.cursor
          /\ in_initial_silence' = st.initial
          /\ voice_segments' = st.segs
    /\ line_i' = line_i + 1
    /\ UNCHANGED <<output, probe, min_duration, ex_pc, audio_exists, ex_printed>>
    /\ UNCHANGED <<fmt_vars, tr_vars, run_vars, out_vars, pr_vars>>

\* the loop is exhausted: the duration probe runs
ScanEnd ==
    /\ ex_pc = "scan"
    /\ line_i > Len(output)
    /\ ex_pc' = "probe"
    /\ UNCHANGED <<output, probe, min_duration, line_i, voice_cursor,
                   in_initial_silence, voice_segments, audio_exists, ex_printed>>
    /\ UNCHANGED <<fmt_vars, tr_vars, run_vars, out_vars, pr_vars>>

\* lines 189-204: the try block after the probe; the segments are saved
\* to output_json, the count is printed and the function returns
ProbeStepMut ==
    /\ ex_pc = "probe"
    /\ voice_segments' = IF in_initial_silence THEN voice_segments
                         ELSE TrailingRun(ScanState, probe, min_duration)
    /\ out_files' = out_files \cup {File("cwd", "json")}
    /\ ex_printed' = Append(ex_printed, "[OK] segments extracted")
    /\ ex_pc' = "done"
    /\ UNCHANGED <<output, probe, min_duration, line_i, voice_cursor,
                   in_initial_silence, audio_exists, txt_file>>
    /\ UNCHANGED <<fmt_vars, tr_vars, run_vars, pr_vars>>
ProbeStep ==
    /\ ex_pc = "probe"
    /\ voice_segments' = TrailingRun(ScanState, probe, min_duration)
    /\ out_files' = out_files \cup {File("cwd", "json")}
    /\ ex_printed' = Append(ex_printed, "[OK] segments extracted")
    /\ ex_pc' = "done"
    /\ UNCHANGED <<output, probe, min_duration, line_i, voice_cursor,
                   in_initial_silence, audio_exists, txt_file>>
    /\ UNCHANGED <<fmt_vars, tr_vars, run_vars, pr_vars>>

-----------------------------------------------------------------------------
(* format_time_srt / format_time_vtt *)

\* the value of a float that is not a number
NaN == -1

DigitChars == <<"0", "1", "2", "3", "4", "5", "6", "7", "8", "9">>

\* str(n) for an integer n >= 0
RECURSIVE Digits(_)
Digits(n) ==
    IF n < 10 THEN <<DigitChars[n + 1]>>
    ELSE Digits(n \div 10) \o <<DigitChars[(n % 10) + 1]>>

\* f"{n:0wd}": zero-padded to a minimum width, never truncated
ZeroPad(n, w) ==
    LET d == Digits(n)
    IN IF Len(d) >= w THEN d ELSE [i \in 1..(w - Len(d)) |-> "0"] \o d

\* round(x * 1000) for x in ticks: nearest millisecond, ties to even
RoundMs(x) ==
    LET q == x \div TicksPerMs
        r == x % TicksPerMs
    IN IF 2 * r < TicksPerMs THEN q
       ELSE IF 2 * r > TicksPerMs THEN q + 1
       ELSE IF q % 2 = 0 THEN q ELSE q + 1

\* the four fields computed at lines 217-220 (and 234-237)
TimeFields(t) ==
    [hours   |-> t \div Sec(3600),
     minutes |-> (t % Sec(3600)) \div Sec(60),
     secs    |-> (t % Sec(60)) \div TicksPerSec,
     ms      |-> RoundMs(t - (t \div TicksPerSec) * TicksPerSec)]

FormatFields(f, sep) ==
    ZeroPad(f.hours, 2) \o <<":">> \o ZeroPad(f.minutes, 2) \o <<":">>
        \o ZeroPad(f.secs, 2) \o <<sep>> \o ZeroPad(f.ms, 3)

format_time_srt(t) == FormatFields(TimeFields(t), ",")

\* lines 234-238
format_time_vttMut(t) ==
    FormatFields([TimeFields(t) EXCEPT !.ms = ToMs(t % TicksPerSec)], ".")
format_time_vtt(t) == FormatFields(TimeFields(t), ".")

\* whole seconds and fractions (ticks) the formatters are applied to
FmtWholeSecs == {0, 1, 59, 60, 3599, 3600, 3661, 86399}
FmtFractions == {0, 4, 5, 6, 1230, 5000, 9994, 9995, 9996, 9999}
FmtInputs == {Sec(w) + f : w \in FmtWholeSecs, f \in FmtFractions}

FmtInit ==
    /\ seconds \in FmtInputs
    /\ srt_out = <<>>
    /\ vtt_out = <<>>

FormatSrt ==
    /\ srt_out = <<>>
    /\ srt_out' = format_time_srt(seconds)
    /\ UNCHANGED <<seconds, vtt_out>>
    /\ UNCHANGED <<ex_vars, tr_vars, run_vars, out_vars, pr_vars>>

FormatVtt ==
    /\ vtt_out = <<>>
    /\ vtt_out' = format_time_vtt(seconds)
    /\ UNCHANGED <<seconds, srt_out>>
    /\ UNCHANGED <<ex_vars, tr_vars, run_vars, out_vars, pr_vars>>

-----------------------------------------------------------------------------
(* transcribe_with_whisperx *)

\* dict.get(key, default)
Get(d, key, default) == IF key \in DOMAIN d THEN d[key] ELSE default

\* float addition, NaN absorbing
AddF(a, b) == IF a = NaN \/ b = NaN THEN NaN ELSE a + b

\* str.strip() on a string held as a sequence of characters
RECURSIVE LStrip(_)
LStrip(s) ==
    IF s # <<>> /\ Head(s) = " " THEN LStrip(Tail(s)) ELSE s

RECURSIVE RStrip(_)
RStrip(s) ==
    IF s # <<>> /\ s[Len(s)] = " " THEN RStrip(SubSeq(s, 1, Len(s) - 1)) ELSE s

Strip(s) == RStrip(LStrip(s))

\* "id": len(all_subtitles) + 1
NextIdMut(subs) == Len(subs)
NextId(subs) == Len(subs) + 1

\* the dictionary appended at lines 413-422 and 431-440
Entry(id, s, e, text) ==
    [id        |-> id,
     start_sec |-> s,
     end_sec   |-> e,
     start_srt |-> format_time_srt(s),
     end_srt   |-> format_time_srt(e),
     start_vtt |-> format_time_vtt(s),
     end_vtt   |-> format_time_vtt(e),
     text      |-> text]

\* lines 407-422: the loop over one span's characters.  The result is the
\* track and whether an exception left the loop (int() of a NaN in
\* format_time_srt raises ValueError).
RECURSIVE NormChars(_, _, _)
NormChars(subs, start_sec, items) ==
    IF items = <<>> THEN [subs |-> subs, raised |-> FALSE]
    ELSE LET char       == Head(items)
             char_start == AddF(start_sec, Get(char, "start", 0))
             char_end   == AddF(start_sec, Get(char, "end", 0))
             char_text  == Get(char, "char", <<>>)
         IN IF Strip(char_text) = <<>>
            THEN NormChars(subs, start_sec, Tail(items))
            ELSE IF char_start = NaN \/ char_end = NaN
            THEN [subs |-> subs, raised |-> TRUE]
            ELSE NormChars(
                     Append(subs, Entry(NextId(subs), char_start, char_end, char_text)),
                     start_sec, Tail(items))

\* lines 425-440: the loop over one span's words
RECURSIVE NormWords(_, _, _)
NormWords(subs, start_sec, items) ==
    IF items = <<>> THEN [subs |-> subs, raised |-> FALSE]
    ELSE LET word    == Head(items)
             w_start == AddF(start_sec, Get(word, "start", 0))
             w_end   == AddF(start_sec, Get(word, "end", 0))
             w_text  == Strip(Get(word, "word", <<>>))
         IN IF w_text = <<>>
            THEN NormWords(subs, start_sec, Tail(items))
            ELSE IF w_start = NaN \/ w_end = NaN
            THEN [subs |-> subs, raised |-> TRUE]
            ELSE NormWords(
                     Append(subs, Entry(NextId(subs), w_start, w_end, w_text)),
                     start_sec, Tail(items))

\* lines 403-440: the loop over the recognized spans of one segment
RECURSIVE NormSpans(_, _, _)
RECURSIVE NormSpansMut(_, _, _)
NormSpansMut(subs, start_sec, spans) ==
    IF spans = <<>> THEN [subs |-> subs, raised |-> FALSE]
    ELSE LET word_seg   == Head(spans)
             word_items == Get(word_seg, "words", <<>>)
             r == IF word_items # <<>>
                  THEN NormWords(subs, start_sec, word_items)
                  ELSE NormChars(subs, start_sec, Get(word_seg, "chars", <<>>))
         IN IF r.raised THEN r
            ELSE NormSpansMut(r.subs, start_sec, Tail(spans))
NormSpans(subs, start_sec, spans) ==
    IF spans = <<>> THEN [subs |-> subs, raised |-> FALSE]
    ELSE LET word_seg   == Head(spans)
             char_items == Get(word_seg, "chars", <<>>)
             r == IF char_items # <<>>
                  THEN NormChars(subs, start_sec, char_items)
                  ELSE NormWords(subs, start_sec, Get(word_seg, "words", <<>>))
         IN IF r.raised THEN r
            ELSE NormSpans(r.subs, start_sec, Tail(spans))

\* where the except clauses of lines 442-445 leave the control: the
\* finally block of the same iteration, and then the next segment
OnSegmentErrorMut == "raised"
OnSegmentError == "finally"

\* lines 447-448: os.remove(temp_audio) when the file exists
RemoveTempMut(files, id) == files
RemoveTemp(files, id) == files \ {id}

\* ---- what the engine may return for one segment ----

\* a span with character timing (the first character carries no timing,
\* the second is blank) and word timing
SpanChars ==
    [chars |-> << [char |-> <<"a">>],
                  [char |-> <<" ">>, start |-> 2000, end |-> 5000],
                  [char |-> <<"b">>, start |-> 5000, end |-> 9996] >>,
     words |-> << [word |-> <<" ", "a", "b">>, start |-> 0, end |-> 9996] >>]

\* a span with word timing only: a padded word and a blank word
SpanWords ==
    [words |-> << [word |-> <<" ", "h", "i", " ">>, start |-> 7000, end |-> 9000],
                  [word |-> <<" ", " ">>, start |-> 9000, end |-> 9000] >>]

\* a span whose second character has no usable timing
SpanNaN ==
    [chars |-> << [char |-> <<"c">>, start |-> 0, end |-> 2000],
                  [char |-> <<"d">>, start |-> NaN, end |-> NaN] >>,
     words |-> <<>>]

SpanVals == {SpanChars, SpanWords, SpanNaN}

\* no span, one span, or two spans
EngineResults ==
    {<<>>} \cup {<<s>> : s \in SpanVals} \cup {<<s, t>> : s, t \in SpanVals}

\* ---- the segment lists the function is called with ----

TrMaxEvents == 2
TrTimes == {Sec(1), Sec(2)}
TrLines == {[marker |-> m, ok |-> TRUE, t |-> t] :
               m \in {"silence_start", "silence_end"}, t \in TrTimes}
TrLogs == {log \in SeqsUpTo(TrLines, TrMaxEvents) : Chronological(log)}

TrInit ==
    /\ tr_pc = "load"
    /\ seg_i = 1
    /\ segment_id = 1
    /\ all_subtitles = <<>>
    /\ temp_files = {}
    /\ result_aligned = <<>>
    /\ models = "unloaded"
    /\ release_count = 0
    /\ outcome = <<>>
    /\ engine_log = <<>>

\* lines 346-356: both models load, or the load raises out of the function
LoadModels ==
    /\ tr_pc = "load"
    /\ \/ /\ models' = "loaded"
          /\ tr_pc' = "loop"
       \/ /\ tr_pc' = "raised"
          /\ UNCHANGED models
    /\ UNCHANGED <<seg_i, segment_id, all_subtitles, temp_files,
                   result_aligned, release_count, outcome, engine_log>>
    /\ UNCHANGED <<ex_vars, fmt_vars, run_vars, out_vars, pr_vars>>

\* lines 358-377: the next segment is taken and ffmpeg slices it.  A
\* failing ffmpeg may or may not leave a file behind.
Slice ==
    /\ tr_pc = "loop"
    /\ seg_i <= Len(voice_segments)
    /\ \/ /\ temp_files' = temp_files \cup {segment_id}
          /\ tr_pc' = "engine"
          /\ UNCHANGED <<outcome, engine_log>>
       \/ /\ \E left \in BOOLEAN :
                temp_files' = IF left THEN temp_files \cup {segment_id}
                              ELSE temp_files
          /\ tr_pc' = OnSegmentError
          /\ outcome' = Append(outcome, "slice_failed")
          /\ engine_log' = Append(engine_log, <<>>)
    /\ UNCHANGED <<seg_i, segment_id, all_subtitles, result_aligned,
                   models, release_count>>
    /\ UNCHANGED <<ex_vars, fmt_vars, run_vars, out_vars, pr_vars>>

\* lines 380-395: load_audio, transcribe and align return a result or raise
Engine ==
    /\ tr_pc = "engine"
    /\ \/ /\ \E r \in EngineResults : result_aligned' = r
          /\ tr_pc' = "normalize"
          /\ UNCHANGED <<outcome, engine_log>>
       \/ /\ tr_pc' = OnSegmentError
          /\ outcome' = Append(outcome, "engine_failed")
          /\ engine_log' = Append(engine_log, <<>>)
          /\ UNCHANGED result_aligned
    /\ UNCHANGED <<seg_i, segment_id, all_subtitles, temp_files,
                   models, release_count>>
    /\ UNCHANGED <<ex_vars, fmt_vars, run_vars, out_vars, pr_vars>>

\* lines 403-440: the spans are normalized into the track
Normalize ==
    /\ tr_pc = "normalize"
    /\ LET start_sec == MsToSec(voice_segments[seg_i].start)
           r == NormSpans(all_subtitles, start_sec, result_aligned)
       IN /\ all_subtitles' = r.subs
          /\ tr_pc' = IF r.raised THEN OnSegmentError ELSE "finally"
          /\ outcome' = Append(outcome,
                               IF r.raised THEN "normalize_failed" ELSE "ok")
    /\ engine_log' = Append(engine_log, result_aligned)
    /\ UNCHANGED <<seg_i, segment_id, temp_files, result_aligned,
                   models, release_count>>
    /\ UNCHANGED <<ex_vars, fmt_vars, run_vars, out_vars, pr_vars>>

\* lines 446-450: the finally block and the end of the iteration
FinallyMut ==
    /\ tr_pc = "finally"
    /\ temp_files' = RemoveTemp(temp_files, segment_id)
    /\ segment_id' = segment_id + 1
    /\ seg_i' = seg_i + 1
    /\ tr_pc' = "loop"
    /\ models' = "released"
    /\ release_count' = release_count + 1
    /\ UNCHANGED <<all_subtitles, result_aligned, outcome, engine_log>>
    /\ UNCHANGED <<ex_vars, fmt_vars, run_vars, out_vars, pr_vars>>
Finally ==
    /\ tr_pc = "finally"
    /\ temp_files' = RemoveTemp(temp_files, segment_id)
    /\ segment_id' = segment_id + 1
    /\ seg_i' = seg_i + 1
    /\ tr_pc' = "loop"
    /\ UNCHANGED <<all_subtitles, result_aligned, models, release_count,
                   outcome, engine_log>>
    /\ UNCHANGED <<ex_vars, fmt_vars, run_vars, out_vars, pr_vars>>

\* lines 456-462: the loop is over; the models are released and the
\* track is returned
Release ==
    /\ tr_pc = "loop"
    /\ seg_i > Len(voice_segments)
    /\ models' = "released"
    /\ release_count' = release_count + 1
    /\ tr_pc' = "done"
    /\ UNCHANGED <<seg_i, segment_id, all_subtitles, temp_files,
                   result_aligned, outcome, engine_log>>
    /\ UNCHANGED <<ex_vars, fmt_vars, run_vars, out_vars, pr_vars>>

-----------------------------------------------------------------------------
(* save_subtitle_formats *)

\* line 292: prev_end before the first entry
None == -2

\* line 293
LINE_BREAK_THRESHOLD == Sec(1)

\* "".join(current_line)
RECURSIVE Join(_)
Join(texts) ==
    IF texts = <<>> THEN <<>> ELSE Head(texts) \o Join(Tail(texts))

\* line 296: the condition under which the current line is written out
LineBreakMut(sub, prev_end) ==
    prev_end # None /\ (sub.start_sec - prev_end) >= LINE_BREAK_THRESHOLD
LineBreak(sub, prev_end) ==
    prev_end # None /\ (sub.start_sec - prev_end) > LINE_BREAK_THRESHOLD

\* lines 295-303: the loop over the track and the final write; written is
\* the sequence of lines written so far (each ends the line with "\n")
RECURSIVE TxtLoop(_, _, _, _)
TxtLoop(subs, current_line, prev_end, written) ==
    IF subs = <<>>
    THEN IF current_line # <<>>
         THEN Append(written, Join(current_line))
         ELSE written
    ELSE LET sub == Head(subs)
         IN IF LineBreak(sub, prev_end)
            THEN TxtLoop(Tail(subs), <<sub.text>>, sub.end_sec,
                         Append(written, Join(current_line)))
            ELSE TxtLoop(Tail(subs), Append(current_line, sub.text),
                         sub.end_sec, written)

\* lines 289-303: the content of the .txt file
TxtLines(subs) == TxtLoop(subs, <<>>, None, <<>>)

SubtitleNames == {"srt", "vtt", "tsv", "txt"}

\* lines 253-305: the four files are written in the working directory (of
\* the .srt, .vtt and .tsv files only the existence is kept here)
SaveSubtitleFormats ==
    /\ run_pc = "step3"
    /\ out_files' = out_files \cup {File("cwd", n) : n \in SubtitleNames}
    /\ txt_file' = TxtLines(all_subtitles)
    /\ run_pc' = "step4"
    /\ UNCHANGED <<run_printed, is_drive_file>>
    /\ UNCHANGED <<ex_vars, fmt_vars, tr_vars, pr_vars>>

-----------------------------------------------------------------------------
(* main_interface.on_run_click, from the try block of line 661 *)

MsgNoVoice      == "[ERROR] no voice segment detected"
MsgEmptyResult  == "[WARN] recognition result is empty"
MsgStep2        == "[STEP 2] recognition and alignment"
MsgStep3        == "[STEP 3] saving subtitle files"
MsgDone         == "[OK] done"
MsgFileNotFound == "[ERROR] file not found"
MsgError        == "[ERROR] processing failed"

\* lines 667-672: extract_voice_segments returned; an empty list stops
\* the run, otherwise transcribe_with_whisperx is called
RunAfterExtractMut ==
    /\ run_pc = "step1"
    /\ ex_pc = "done"
    /\ tr_pc = "idle"
    /\ run_printed' = Append(run_printed, MsgStep2)
    /\ run_pc' = "step2"
    /\ tr_pc' = "load"
    /\ UNCHANGED <<seg_i, segment_id, all_subtitles, temp_files,
                   result_aligned, models, release_count, outcome,
                   engine_log, is_drive_file>>
    /\ UNCHANGED <<ex_vars, fmt_vars, out_vars, pr_vars>>
RunAfterExtract ==
    /\ run_pc = "step1"
    /\ ex_pc = "done"
    /\ tr_pc = "idle"
    /\ IF voice_segments = <<>>
       THEN /\ run_printed' = Append(run_printed, MsgNoVoice)
            /\ run_pc' = "done"
            /\ UNCHANGED tr_pc
       ELSE /\ run_printed' = Append(run_printed, MsgStep2)
            /\ run_pc' = "step2"
            /\ tr_pc' = "load"
    /\ UNCHANGED <<seg_i, segment_id, all_subtitles, temp_files,
                   result_aligned, models, release_count, outcome,
                   engine_log, is_drive_file>>
    /\ UNCHANGED <<ex_vars, fmt_vars, out_vars, pr_vars>>

\* lines 731-732: the FileNotFoundError of extract_voice_segments is
\* caught and reported
RunExtractRaised ==
    /\ run_pc = "step1"
    /\ ex_pc = "raised"
    /\ run_printed' = Append(run_printed, MsgFileNotFound)
    /\ run_pc' = "done"
    /\ UNCHANGED is_drive_file
    /\ UNCHANGED <<ex_vars, fmt_vars, tr_vars, out_vars, pr_vars>>

\* lines 682-687: transcribe_with_whisperx returned; an empty track stops
\* the run, otherwise the writers are called
RunAfterTranscribe ==
    /\ run_pc = "step2"
    /\ tr_pc = "done"
    /\ IF all_subtitles = <<>>
       THEN /\ run_printed' = Append(run_printed, MsgEmptyResult)
            /\ run_pc' = "done"
       ELSE /\ run_printed' = Append(run_printed, MsgStep3)
            /\ run_pc' = "step3"
    /\ UNCHANGED is_drive_file
    /\ UNCHANGED <<ex_vars, fmt_vars, tr_vars, out_vars, pr_vars>>

\* lines 733-736: an exception out of transcribe_with_whisperx (the model
\* load) is caught and reported
RunTranscribeRaised ==
    /\ run_pc = "step2"
    /\ tr_pc = "raised"
    /\ run_printed' = Append(run_printed, MsgError)
    /\ run_pc' = "done"
    /\ UNCHANGED is_drive_file
    /\ UNCHANGED <<ex_vars, fmt_vars, tr_vars, out_vars, pr_vars>>

\* the files on_run_click hands to the packaging (lines 688-689)
Produced == {File("cwd", n) : n \in SubtitleNames \cup {"json"}}

\* lines 691-729: the produced files that exist are zipped to the drive
\* and removed, or moved to the temporary directory and zipped there
Package ==
    /\ run_pc = "step4"
    /\ LET have == out_files \cap Produced
       IN out_files' =
              IF is_drive_file
              THEN (out_files \ have) \cup {File("drive", "zip")}
              ELSE (out_files \ have)
                       \cup {File("temp", f.name) : f \in have}
                       \cup {File("content", "zip")}
    /\ run_printed' = Append(run_printed, MsgDone)
    /\ run_pc' = "done"
    /\ UNCHANGED <<is_drive_file, txt_file>>
    /\ UNCHANGED <<ex_vars, fmt_vars, tr_vars, pr_vars>>

-----------------------------------------------------------------------------
(* load_saved_prompts / save_prompt *)

\* saved_prompts.json: absent, or holding a list
Absent == [exists |-> FALSE, list |-> <<>>]
Stored(list) == [exists |-> TRUE, list |-> list]

\* line 78: the default list (the first and the third prompt are written
\* in Latin letters here)
DefaultPrompts == <<"Qing shuo putonghua", "Speak clearly",
                    "Hakkiri hanashite kudasai">>

\* lines 75-78: the stored list when the file exists, else the defaults
load_saved_prompts(file) ==
    IF file.exists THEN file.list ELSE DefaultPrompts

\* line 92: prompt in prompts
ContainsMut(list, x) == FALSE
Contains(list, x) == \E i \in 1..Len(list) : list[i] = x

\* lines 94-95: the list json.dump writes
PersistedMut(prompts, prompt) == Stored(prompts)
Persisted(prompts, prompt) == Stored(Append(prompts, prompt))

\* a call of load_saved_prompts
LoadSavedPrompts ==
    /\ loaded' = load_saved_prompts(prompt_file)
    /\ UNCHANGED <<prompt_file, ret, saved>>
    /\ UNCHANGED <<ex_vars, fmt_vars, tr_vars, run_vars, out_vars>>

\* lines 91-96: save_prompt(prompt)
SavePrompt(prompt) ==
    /\ LET prompts == load_saved_prompts(prompt_file)
       IN IF ~Contains(prompts, prompt)
          THEN /\ prompt_file' = Persisted(prompts, prompt)
               /\ ret' = Append(prompts, prompt)
          ELSE /\ UNCHANGED prompt_file
               /\ ret' = prompts
    /\ saved' = saved \cup {prompt}
    /\ UNCHANGED loaded
    /\ UNCHANGED <<ex_vars, fmt_vars, tr_vars, run_vars, out_vars>>

-----------------------------------------------------------------------------
(* Specifications *)

FmtIdle == seconds = 0 /\ srt_out = <<>> /\ vtt_out = <<>>

\* on_run_click is not running and no output file exists
RunIdle ==
    /\ run_pc = "idle"
    /\ run_printed = <<>>
    /\ is_drive_file = FALSE
    /\ out_files = {}
    /\ txt_file = <<>>

\* the prompt store is not used
PromptIdle ==
    /\ prompt_file = Absent
    /\ ret = <<>>
    /\ saved = {}
    /\ loaded = <<>>

\* extract_voice_segments alone
SegInit == ExInit /\ FmtIdle /\ TrInit /\ RunIdle /\ PromptIdle
SegNext == ScanStep \/ ScanEnd \/ ProbeStep
SpecSeg == SegInit /\ [][SegNext]_vars

\* the formatters alone
ExIdle ==
    /\ output = <<>>
    /\ probe = [ok |-> FALSE, total |-> 0]
    /\ min_duration = 0
    /\ line_i = 1
    /\ voice_cursor = 0
    /\ in_initial_silence = TRUE
    /\ voice_segments = <<>>
    /\ ex_pc = "scan"
    /\ audio_exists = TRUE
    /\ ex_printed = <<>>
FmtSpecInit == ExIdle /\ FmtInit /\ TrInit /\ RunIdle /\ PromptIdle
FmtNext == FormatSrt \/ FormatVtt
SpecFmt == FmtSpecInit /\ [][FmtNext]_vars

\* transcribe_with_whisperx on the list extract_voice_segments returned
TrProbe == [ok |-> TRUE, total |-> Sec(3)]
TrProbes == {TrProbe, [ok |-> FALSE, total |-> 0]}
TrMinDuration == 5000
TrSpecInit ==
    /\ output \in TrLogs
    /\ probe \in TrProbes
    /\ min_duration = TrMinDuration
    /\ line_i = Len(output) + 1
    /\ LET st == ScanAll(ScanInit, output, min_duration)
       IN /\ voice_cursor = st.cursor
          /\ in_initial_silence = st.initial
          /\ voice_segments = TrailingRun(st, probe, min_duration)
    /\ ex_pc = "done"
    /\ audio_exists = TRUE
    /\ ex_printed = <<"[OK] segments extracted">>
    /\ FmtIdle
    /\ TrInit
    /\ run_pc = "idle"
    /\ run_printed = <<>>
    /\ is_drive_file = FALSE
    /\ out_files = {File("cwd", "json")}
    /\ txt_file = <<>>
    /\ PromptIdle
TrNext == LoadModels \/ Slice \/ Engine \/ Normalize \/ Finally \/ Release
SpecTr == TrSpecInit /\ [][TrNext]_vars

\* on_run_click from its try block: extract_voice_segments, then
\* transcribe_with_whisperx, save_subtitle_formats and the packaging
RunMaxEvents == 1
RunLines == {[marker |-> "silence_start", ok |-> TRUE, t |-> Sec(1)],
             [marker |-> "silence_end", ok |-> TRUE, t |-> Sec(2)],
             [marker |-> "none", ok |-> FALSE, t |-> 0]}
RunLogs == {log \in SeqsUpTo(RunLines, RunMaxEvents) : Chronological(log)}
TrIdle ==
    /\ tr_pc = "idle"
    /\ seg_i = 1
    /\ segment_id = 1
    /\ all_subtitles = <<>>
    /\ temp_files = {}
    /\ result_aligned = <<>>
    /\ models = "unloaded"
    /\ release_count = 0
    /\ outcome = <<>>
    /\ engine_log = <<>>
RunInit ==
    /\ output \in RunLogs
    /\ probe \in TrProbes
    /\ min_duration = TrMinDuration
    /\ line_i = 1
    /\ voice_cursor = ScanInit.cursor
    /\ in_initial_silence = ScanInit.initial
    /\ voice_segments = ScanInit.segs
    /\ ex_pc = "entry"
    /\ audio_exists \in BOOLEAN
    /\ ex_printed = <<>>
    /\ FmtIdle
    /\ TrIdle
    /\ run_pc = "step1"
    /\ run_printed = <<>>
    /\ is_drive_file \in BOOLEAN
    /\ out_files = {}
    /\ txt_file = <<>>
    /\ PromptIdle
RunNext ==
    \/ ExtractEnter \/ ScanStep \/ ScanEnd \/ ProbeStep
    \/ RunAfterExtract \/ RunExtractRaised
    \/ LoadModels \/ Slice \/ Engine \/ Normalize \/ Finally \/ Release
    \/ RunAfterTranscribe \/ RunTranscribeRaised
    \/ SaveSubtitleFormats \/ Package
SpecRun == RunInit /\ [][RunNext]_vars

\* save_subtitle_formats and the packaging on a given track
MaxTrack == 3
TxtSpans == {[s |-> 0, e |-> 5000], [s |-> 15000, e |-> 20000],
             [s |-> 15001, e |-> 20000], [s |-> 30001, e |-> 35000]}
TxtTexts == {<<"a">>, <<"b", "c">>}
TxtUnits == {[s |-> sp.s, e |-> sp.e, text |-> t] : sp \in TxtSpans, t \in TxtTexts}
Tracks ==
    {[i \in DOMAIN u |-> Entry(i, u[i].s, u[i].e, u[i].text)] :
        u \in {v \in SeqsUpTo(TxtUnits, MaxTrack) :
                  \A i \in 1..(Len(v) - 1) : v[i].s <= v[i + 1].s}}
TxtInit ==
    /\ ExIdle
    /\ FmtIdle
    /\ tr_pc = "idle"
    /\ seg_i = 1
    /\ segment_id = 1
    /\ all_subtitles \in Tracks
    /\ temp_files = {}
    /\ result_aligned = <<>>
    /\ models = "unloaded"
    /\ release_count = 0
    /\ outcome = <<>>
    /\ engine_log = <<>>
    /\ run_pc = "step3"
    /\ run_printed = <<>>
    /\ is_drive_file \in BOOLEAN
    /\ out_files = {}
    /\ txt_file = <<>>
    /\ PromptIdle
TxtNext == SaveSubtitleFormats \/ Package
SpecTxt == TxtInit /\ [][TxtNext]_vars

\* the prompt store from any stored list
MaxStored == 2
PromptVals == {"Speak clearly", "prompt A", "prompt B"}
PromptInit ==
    /\ ExIdle
    /\ FmtIdle
    /\ TrIdle
    /\ RunIdle
    /\ prompt_file \in {Absent}
                       \cup {Stored(l) : l \in SeqsUpTo(PromptVals, MaxStored)}
    /\ ret = <<>>
    /\ saved = {}
    /\ loaded = <<>>
PromptNext == LoadSavedPrompts \/ \E p \in PromptVals : SavePrompt(p)
SpecPrompt == PromptInit /\ [][PromptNext]_vars

\* the default specification: the reconstructor
Init == SegInit
Next == SegNext
Spec == SpecSeg

-----------------------------------------------------------------------------
(* Properties of extract_voice_segments, checked under SpecSeg *)

StartLine(t) == [marker |-> "silence_start", ok |-> TRUE, t |-> t]
EndLine(t)   == [marker |-> "silence_end", ok |-> TRUE, t |-> t]

ProbeOf(total) == [ok |-> TRUE, total |-> total]

\* each segment starts at or after the end of the one before it
Ascending(segs) ==
    \A i \in 1..(Len(segs) - 1) : segs[i + 1].start >= segs[i].end

\* no event of the log lies after the end of the media
WithinDuration(log, total) ==
    \A i \in 1..Len(log) :
        (log[i].marker # "none" /\ log[i].ok) => log[i].t <= total

\* C1: for a chronological log whose timestamps do not exceed the media
\* duration, the returned list is ascending and non-overlapping.
CE_C1 ==
    (ex_pc = "done" /\ probe.ok /\ WithinDuration(output, probe.total))
        => Ascending(voice_segments)

LogC2 == <<StartLine(Sec(1)), EndLine(Sec(3))>>

RunOf(log, total, mind) ==
    /\ ex_pc = "done"
    /\ output = log
    /\ probe = ProbeOf(total)
    /\ min_duration = mind

\* C2 as stated: log [silence_start@1.0, silence_end@3.0], duration 10 s,
\* min_duration 0.5 s returns exactly [{3000, 10000}].
CE_C2 ==
    RunOf(LogC2, Sec(10), 5000) => voice_segments = <<Segment(3000, 10000)>>

\* C2 amended: the same run returns [{0, 1000}, {3000, 10000}]; the span
\* before the first silence_start is emitted as a segment.
Thm_C2 ==
    RunOf(LogC2, Sec(10), 5000)
        => voice_segments = <<Segment(0, 1000), Segment(3000, 10000)>>

Wit_C2 == RunOf(LogC2, Sec(10), 5000) /\ Len(voice_segments) = 2

LogC3 == <<EndLine(Sec(2)), StartLine(Sec(8))>>

RECURSIVE DropRepeatedStarts(_, _)
DropRepeatedStarts(log, afterStart) ==
    IF log = <<>> THEN <<>>
    ELSE LET l == Head(log)
         IN IF l.marker = "none" \/ ~l.ok
            THEN <<l>> \o DropRepeatedStarts(Tail(log), afterStart)
            ELSE IF l.marker = "silence_start"
            THEN IF afterStart
                 THEN DropRepeatedStarts(Tail(log), TRUE)
                 ELSE <<l>> \o DropRepeatedStarts(Tail(log), TRUE)
            ELSE <<l>> \o DropRepeatedStarts(Tail(log), FALSE)

\* C4: a silence_start that follows a silence_start with no silence_end in
\* between emits nothing: the result is that of the log without it.
CE_C4 ==
    ex_pc = "done"
        => voice_segments =
               ExtractVoiceSegments(DropRepeatedStarts(output, FALSE),
                                    probe, min_duration)

\* the lines of a log read so far
Scanned == SubSeq(output, 1, line_i - 1)

Malformed(line) == line.marker = "none" \/ ~line.ok

\* C15: a step over a line that carries no marker, or a marker with a
\* timestamp float() rejects, leaves the cursor, the leading-silence flag
\* and the segment list as they were and the scan goes on; at every point
\* the scan state, and at the end the returned list, are those of the
\* same log with such lines removed.
Thm_C15 ==
    [][/\ (ex_pc = "scan" /\ line_i <= Len(output) /\ Malformed(output[line_i]))
          => /\ UNCHANGED <<voice_cursor, in_initial_silence, voice_segments>>
             /\ ex_pc' = "scan"
             /\ line_i' = line_i + 1
       /\ LET st == ScanAll(ScanInit, Events(Scanned'), min_duration)
          IN /\ voice_cursor' = st.cursor
             /\ in_initial_silence' = st.initial
             /\ ex_pc' # "done" => voice_segments' = st.segs
             /\ ex_pc' = "done"
                   => voice_segments' =
                          ExtractVoiceSegments(Events(output), probe, min_duration)
      ]_vars

\* a log with a line without marker, a marker line with a bad timestamp
\* and a valid event has been processed
Wit_C15 ==
    /\ ex_pc = "done"
    /\ \E i, j, k \in 1..Len(output) :
          /\ output[i].marker = "none"
          /\ output[j].marker # "none" /\ ~output[j].ok
          /\ output[k].marker # "none" /\ output[k].ok
          /\ j < k
    /\ voice_segments # <<>>

\* C17: every segment of the list, at every point of the scan and at the
\* return, ends after it starts and is strictly longer than min_duration.
Thm_C17 ==
    \A i \in 1..Len(voice_segments) :
        /\ voice_segments[i].end > voice_segments[i].start
        /\ (voice_segments[i].end - voice_segments[i].start) * TicksPerMs
               > min_duration

\* a list with a segment emitted at a START event and the trailing run,
\* under a positive min_duration
Wit_C17 ==
    /\ ex_pc = "done"
    /\ min_duration > 0
    /\ probe.ok
    /\ Len(voice_segments) >= 2
    /\ voice_segments[Len(voice_segments)].end = ToMs(probe.total)
    /\ \E i \in 1..Len(output) :
          /\ output[i].marker = "silence_start" /\ output[i].ok
          /\ voice_segments[1].end = ToMs(output[i].t)

\* C18: a log without events and a duration whose millisecond value
\* exceeds the minimum give the whole clip as the single segment; the
\* empty log with 5000 ms and min_duration 0.5 s gives exactly {0, 5000}.
Thm_C18 ==
    /\ (/\ ex_pc = "done"
        /\ Events(output) = <<>>
        /\ probe.ok
        /\ ToMs(probe.total) > ToMs(min_duration))
          => voice_segments = <<Segment(0, ToMs(probe.total))>>
    /\ RunOf(<<>>, Sec(5), 5000) => voice_segments = <<Segment(0, 5000)>>

Wit_C18 ==
    /\ RunOf(<<>>, Sec(5), 5000)
    /\ voice_segments = <<[start |-> 0, end |-> 5000]>>

\* the time of the last END event of a sequence of events, 0 without one
LastEnd(ev) ==
    LET ends == SelectSeq(ev, LAMBDA l : l.marker = "silence_end")
    IN IF ends = <<>> THEN 0 ELSE ends[Len(ends)].t

\* the scan is about to read a line of the given marker whose timestamp
\* float() accepts
Reads(marker) ==
    /\ ex_pc = "scan"
    /\ line_i <= Len(output)
    /\ output[line_i].marker = marker
    /\ output[line_i].ok

\* C22: the leading-silence flag is true exactly while no START or END
\* event has been parsed and never returns to true; the cursor is 0.0
\* until an END event is parsed, only a parsed END event changes it, and
\* it is then the time of that event.
Thm_C22 ==
    [][/\ in_initial_silence' = (Events(Scanned') = <<>>)
       /\ ~in_initial_silence => ~in_initial_silence'
       /\ voice_cursor' = LastEnd(Events(Scanned'))
       /\ voice_cursor' # voice_cursor
             => (Reads("silence_end") /\ voice_cursor' = output[line_i].t)
       /\ Reads("silence_end")
             => (voice_cursor' = output[line_i].t /\ ~in_initial_silence')
       /\ Reads("silence_start")
             => (voice_cursor' = voice_cursor /\ ~in_initial_silence')
      ]_vars

\* a scan that met a bad line first, then a START and later an END event
Wit_C22 ==
    /\ ex_pc = "done"
    /\ Len(output) = 3
    /\ Malformed(output[1])
    /\ output[2].marker = "silence_start" /\ output[2].ok
    /\ output[3].marker = "silence_end" /\ output[3].ok
    /\ voice_cursor = output[3].t
    /\ ~in_initial_silence

\* the message a failed duration probe would have to leave
ProbeWarning == "[WARN] duration probe failed"

\* C14 as stated: a probe output that float() rejects raises nothing, adds
\* no trailing run, leaves the segments of the event log, and a warning
\* is surfaced to the caller.
CE_C14 ==
    (ex_pc = "done" /\ ~probe.ok)
        => /\ voice_segments = ScanAll(ScanInit, output, min_duration).segs
           /\ \E i \in 1..Len(ex_printed) : ex_printed[i] = ProbeWarning

-----------------------------------------------------------------------------
(* Properties of the formatters, checked under SpecFmt *)

\* the rendering with the rounded millisecond carried into the seconds,
\* minutes and hours
Carried(t, sep) ==
    LET total_ms == RoundMs(t)
    IN ZeroPad(total_ms \div 3600000, 2) \o <<":">>
           \o ZeroPad((total_ms % 3600000) \div 60000, 2) \o <<":">>
           \o ZeroPad((total_ms % 60000) \div 1000, 2) \o <<sep>>
           \o ZeroPad(total_ms % 1000, 3)

\* first position of character c in s
IndexOf(s, c) ==
    CHOOSE i \in 1..Len(s) : s[i] = c /\ \A j \in 1..(i - 1) : s[j] # c

AfterChar(s, c) == SubSeq(s, IndexOf(s, c) + 1, Len(s))
BeforeChar(s, c) == SubSeq(s, 1, IndexOf(s, c) - 1)

IsDigit(ch) == \E d \in 1..10 : DigitChars[d] = ch
DigitVal(ch) == CHOOSE d \in 0..9 : DigitChars[d + 1] = ch

RECURSIVE ParseInt(_)
ParseInt(s) ==
    IF s = <<>> THEN 0
    ELSE ParseInt(SubSeq(s, 1, Len(s) - 1)) * 10 + DigitVal(s[Len(s)])

\* hours*3600 + minutes*60 + seconds + ms/1000 of a rendered time, in ticks
ParseSeconds(s, sep) ==
    LET r1 == AfterChar(s, ":")
        r2 == AfterChar(r1, ":")
    IN Sec(ParseInt(BeforeChar(s, ":")) * 3600
           + ParseInt(BeforeChar(r1, ":")) * 60
           + ParseInt(BeforeChar(r2, sep)))
       + ParseInt(AfterChar(r2, sep)) * TicksPerMs

\* the milliseconds field of a rendered time
MsField(s, sep) == AfterChar(AfterChar(AfterChar(s, ":"), ":"), sep)

\* two digits ':' two digits ':' two digits sep three digits
ShapeOk(s, sep) ==
    /\ Len(s) = 12
    /\ \A i \in {1, 2, 4, 5, 7, 8, 10, 11, 12} : IsDigit(s[i])
    /\ s[3] = ":" /\ s[6] = ":" /\ s[9] = sep

Within1Ms(a, b) == a - b <= TicksPerMs /\ b - a <= TicksPerMs

\* C5: the milliseconds field is always 000..999 and a fraction that rounds
\* to 1000 ms is carried into the seconds (then minutes, hours);
\* format_time_srt(0.9996) is "00:00:01,000".
CE_C5 ==
    /\ srt_out # <<>> =>
          /\ Len(MsField(srt_out, ",")) = 3
          /\ srt_out = Carried(seconds, ",")
    /\ vtt_out # <<>> =>
          /\ Len(MsField(vtt_out, ".")) = 3
          /\ vtt_out = Carried(seconds, ".")
    /\ (seconds = 9996 /\ srt_out # <<>>) =>
          srt_out = <<"0", "0", ":", "0", "0", ":", "0", "1", ",", "0", "0", "0">>

\* C6: the rendering has the shape dd:dd:dd,ddd (dd:dd:dd.ddd for VTT) and
\* parses back to a value within 1 ms of the argument.
CE_C6 ==
    /\ srt_out # <<>> =>
          /\ ShapeOk(srt_out, ",")
          /\ Within1Ms(ParseSeconds(srt_out, ","), seconds)
    /\ vtt_out # <<>> =>
          /\ ShapeOk(vtt_out, ".")
          /\ Within1Ms(ParseSeconds(vtt_out, "."), seconds)

\* a string with every ',' replaced by '.'
CommaToDot(str) ==
    [i \in 1..Len(str) |-> IF str[i] = "," THEN "." ELSE str[i]]

\* the positions of character c in a string
Positions(str, c) == {i \in 1..Len(str) : str[i] = c}

\* C23: the SRT rendering of a time holds exactly one ',', which stands
\* before the millisecond digits, and the VTT rendering of the same time
\* is that string with the ',' replaced by '.'.
Thm_C23 ==
    (srt_out # <<>> /\ vtt_out # <<>>)
        => /\ Cardinality(Positions(srt_out, ",")) = 1
           /\ Positions(srt_out, ".") = {}
           /\ \A i \in Positions(srt_out, ",") :
                 /\ i < Len(srt_out)
                 /\ \A j \in (i + 1)..Len(srt_out) : IsDigit(srt_out[j])
           /\ vtt_out = CommaToDot(srt_out)
           /\ Len(vtt_out) = Len(srt_out)

\* both renderings of 3661.123 s have been produced
Wit_C23 ==
    /\ seconds = Sec(3661) + 1230
    /\ srt_out = <<"0", "1", ":", "0", "1", ":", "0", "1", ",", "1", "2", "3">>
    /\ vtt_out = <<"0", "1", ":", "0", "1", ":", "0", "1", ".", "1", "2", "3">>

-----------------------------------------------------------------------------
(* Properties of transcribe_with_whisperx, checked under SpecTr *)

RECURSIVE KeepText(_, _, _)
\* the units of a list whose text is not blank, as [start, end, text];
\* key names the text field and strip tells whether the text is trimmed
KeepText(items, key, strip) ==
    IF items = <<>> THEN <<>>
    ELSE LET u == Head(items)
             raw == Get(u, key, <<>>)
         IN IF Strip(raw) = <<>>
            THEN KeepText(Tail(items), key, strip)
            ELSE <<[start |-> Get(u, "start", 0),
                    end   |-> Get(u, "end", 0),
                    text  |-> IF strip THEN Strip(raw) ELSE raw]>>
                 \o KeepText(Tail(items), key, strip)

\* the units one span stands for: its characters when it has any,
\* otherwise its words
UnitsOfSpan(span) ==
    IF Get(span, "chars", <<>>) # <<>>
    THEN KeepText(span.chars, "char", FALSE)
    ELSE KeepText(Get(span, "words", <<>>), "word", TRUE)

RECURSIVE UnitsOfResult(_)
UnitsOfResult(spans) ==
    IF spans = <<>> THEN <<>>
    ELSE UnitsOfSpan(Head(spans)) \o UnitsOfResult(Tail(spans))

\* the units of segment k on the global timeline
UnitsOfSegment(k) ==
    LET u == UnitsOfResult(engine_log[k])
        base == MsToSec(voice_segments[k].start)
    IN [i \in 1..Len(u) |->
           [start_sec |-> base + u[i].start,
            end_sec   |-> base + u[i].end,
            text      |-> u[i].text]]

\* the units of the first n segments whose processing ended without an
\* exception, in segment order
RECURSIVE UnitsOfOkSegments(_)
UnitsOfOkSegments(n) ==
    IF n = 0 THEN <<>>
    ELSE UnitsOfOkSegments(n - 1)
             \o (IF outcome[n] = "ok" THEN UnitsOfSegment(n) ELSE <<>>)

Timed(subs) ==
    [i \in 1..Len(subs) |->
        [start_sec |-> subs[i].start_sec,
         end_sec   |-> subs[i].end_sec,
         text      |-> subs[i].text]]

Outcomes == {outcome[k] : k \in 1..Len(outcome)}

\* C7: an exception of the slicing or of the engine for one segment does
\* not abort the function; every segment is attempted, and when the only
\* failures are slicing and engine failures the track holds exactly the
\* units of the segments that did not fail, in order.
Thm_C7 ==
    /\ tr_pc = "raised" => (models = "unloaded" /\ outcome = <<>>)
    /\ tr_pc = "done" => Len(outcome) = Len(voice_segments)
    /\ "normalize_failed" \notin Outcomes
          => Timed(all_subtitles) = UnitsOfOkSegments(Len(outcome))

Wit_C7 ==
    /\ tr_pc = "done"
    /\ Len(outcome) = 3
    /\ outcome[1] = "ok" /\ outcome[2] = "engine_failed" /\ outcome[3] = "ok"
    /\ UnitsOfSegment(1) # <<>> /\ UnitsOfSegment(3) # <<>>
    /\ Len(all_subtitles) = Len(UnitsOfSegment(1)) + Len(UnitsOfSegment(3))

\* C11: in a segment whose normalization completes, every span contributes
\* on its own: one entry per non-blank character when its character list
\* is not empty and nothing from its words, otherwise one entry per
\* non-blank word; the entries are appended to the track in span order,
\* none is lost or repeated, and each carries the segment start plus the
\* unit's local start and end.
Thm_C11 ==
    [][(/\ tr_pc = "normalize"
        /\ Len(outcome') = Len(outcome) + 1
        /\ outcome'[Len(outcome')] = "ok")
       => LET base == MsToSec(voice_segments[seg_i].start)
              u    == UnitsOfResult(result_aligned)
              n    == Len(all_subtitles)
          IN /\ Len(all_subtitles') = n + Len(u)
             /\ SubSeq(all_subtitles', 1, n) = all_subtitles
             /\ \A i \in 1..Len(u) :
                   /\ all_subtitles'[n + i].start_sec = base + u[i].start
                   /\ all_subtitles'[n + i].end_sec = base + u[i].end
                   /\ all_subtitles'[n + i].text = u[i].text
             /\ \A j \in 1..Len(result_aligned) :
                   LET span == result_aligned[j]
                   IN Len(UnitsOfSpan(span)) =
                         IF Get(span, "chars", <<>>) # <<>>
                         THEN Cardinality({c \in 1..Len(span.chars) :
                                  Strip(Get(span.chars[c], "char", <<>>)) # <<>>})
                         ELSE Cardinality({w \in 1..Len(Get(span, "words", <<>>)) :
                                  Strip(Get(span.words[w], "word", <<>>)) # <<>>})
      ]_vars

\* a segment mixing a word-level span and a character-level span has been
\* normalized: one word and two characters are in the track
Wit_C11 ==
    /\ tr_pc = "done"
    /\ \E k \in 1..Len(outcome) :
          /\ outcome[k] = "ok"
          /\ engine_log[k] = <<SpanWords, SpanChars>>
          /\ Len(UnitsOfSegment(k)) = 3
    /\ Len(all_subtitles) >= 3

\* C13: once the models are loaded they are released exactly once: not
\* while a segment is being processed or between two segments, where the
\* models stay loaded and the loop goes on; at the release every segment
\* has been attempted, however many failed.
Thm_C13 ==
    /\ release_count <= 1
    /\ (release_count = 1) <=> (tr_pc = "done")
    /\ (models = "released") <=> (tr_pc = "done")
    /\ (models = "loaded")
          <=> (tr_pc \in {"loop", "engine", "normalize", "finally"})
    /\ models = "loaded" => seg_i <= Len(voice_segments) + 1
    /\ tr_pc \in {"engine", "normalize", "finally"}
          => seg_i <= Len(voice_segments)
    /\ tr_pc = "done"
          => /\ Len(outcome) = Len(voice_segments)
             /\ seg_i = Len(voice_segments) + 1

\* the function returned after two segments that both failed
Wit_C13 ==
    /\ tr_pc = "done"
    /\ release_count = 1
    /\ Len(voice_segments) >= 2
    /\ Outcomes \subseteq {"slice_failed", "engine_failed", "normalize_failed"}

\* C8: at most one temporary slice exists at any moment, it is the slice
\* of the segment being processed, and none exists between two segments or
\* when the function returns.
Thm_C8 ==
    /\ Cardinality(temp_files) <= 1
    /\ temp_files \subseteq {segment_id}
    /\ tr_pc \in {"load", "loop", "done", "raised"} => temp_files = {}

Wit_C8 ==
    /\ tr_pc = "done"
    /\ {"ok", "slice_failed", "engine_failed"} \subseteq Outcomes
    /\ temp_files = {}

\* C9: the i-th entry of the track has id i.
Thm_C9 ==
    \A i \in 1..Len(all_subtitles) : all_subtitles[i].id = i

\* a segment whose result held a unit that was discarded for blank text
Discarded(k) ==
    \E j \in 1..Len(engine_log[k]) : engine_log[k][j] \in {SpanChars, SpanWords}

Wit_C9 ==
    /\ tr_pc = "done"
    /\ "engine_failed" \in Outcomes
    /\ \E k \in 1..Len(outcome) : outcome[k] = "ok" /\ Discarded(k)
    /\ Len(all_subtitles) >= 3

\* the engine's answer for segment k has its units ordered by start
\* offset, with every offset inside the slice
WellBehaved(k) ==
    LET u == UnitsOfResult(engine_log[k])
        len == MsToSec(voice_segments[k].end - voice_segments[k].start)
    IN /\ \A i \in 1..Len(u) :
              0 <= u[i].start /\ u[i].start <= u[i].end /\ u[i].end <= len
       /\ \A i \in 1..(Len(u) - 1) : u[i].start <= u[i + 1].start

\* C10: when the engine's answers are ordered and inside their slices,
\* start_sec is non-decreasing along the track.
CE_C10 ==
    (\A k \in 1..Len(engine_log) : WellBehaved(k))
        => \A i \in 1..(Len(all_subtitles) - 1) :
               all_subtitles[i].start_sec <= all_subtitles[i + 1].start_sec

\* C21 as stated: the returned track holds units of a segment only when
\* the whole processing of that segment ended without an exception, so it
\* is exactly the units of the segments that ended "ok", in order.
CE_C21 ==
    tr_pc = "done"
        => Timed(all_subtitles) = UnitsOfOkSegments(Len(outcome))

-----------------------------------------------------------------------------
(* Properties of on_run_click, checked under SpecRun *)

Printed(msg) == \E i \in 1..Len(run_printed) : run_printed[i] = msg

SubtitleFiles == {f \in out_files : f.name \in SubtitleNames}

\* C12: when extract_voice_segments returns no segment the recognizer is
\* not invoked; the writers are reached only with a non-empty segment list
\* and a non-empty track; a run stopped by an empty result ends with its
\* message as the last output and has written no subtitle file.
Thm_C12 ==
    /\ (ex_pc = "done" /\ voice_segments = <<>>)
          => /\ tr_pc = "idle"
             /\ run_pc \in {"step1", "done"}
             /\ run_pc = "done"
                   => run_printed[Len(run_printed)] = MsgNoVoice
    /\ (tr_pc = "done" /\ all_subtitles = <<>>)
          => /\ run_pc \in {"step2", "done"}
             /\ run_pc = "done"
                   => run_printed[Len(run_printed)] = MsgEmptyResult
    /\ (voice_segments = <<>> \/ all_subtitles = <<>>)
          => /\ run_pc \notin {"step3", "step4"}
             /\ ~Printed(MsgStep3)
             /\ SubtitleFiles = {}
             /\ txt_file = <<>>
    /\ (run_pc \in {"step3", "step4"} \/ Printed(MsgStep3) \/ SubtitleFiles # {})
          => (voice_segments # <<>> /\ all_subtitles # <<>>)

\* a run that found no segment in an existing audio file has ended
Wit_C12 ==
    /\ run_pc = "done"
    /\ audio_exists
    /\ ex_pc = "done"
    /\ voice_segments = <<>>
    /\ run_printed = <<MsgNoVoice>>
    /\ tr_pc = "idle"

\* C16: when the audio path does not exist extract_voice_segments raises
\* before the detector and the probe run and before the segments file is
\* written, the recognizer and the writers never run, no file is
\* produced, and the run ends reporting the missing file.
Thm_C16 ==
    ~audio_exists
        => /\ ex_pc \in {"entry", "raised"}
           /\ line_i = 1
           /\ voice_segments = <<>>
           /\ ex_printed = <<>>
           /\ out_files = {}
           /\ txt_file = <<>>
           /\ tr_pc = "idle"
           /\ run_pc \in {"step1", "done"}
           /\ run_pc = "done" => run_printed = <<MsgFileNotFound>>

Wit_C16 ==
    /\ ~audio_exists
    /\ ex_pc = "raised"
    /\ run_pc = "done"
    /\ run_printed = <<MsgFileNotFound>>

-----------------------------------------------------------------------------
(* Properties of the plain-text writer, checked under SpecTxt *)

\* the gap between entry i and entry i + 1 of the track
Gap(i) == all_subtitles[i + 1].start_sec - all_subtitles[i].end_sec

\* the positions after which the gap exceeds 1.0 s
Gaps == {i \in 1..(Len(all_subtitles) - 1) : Gap(i) > Sec(1)}

\* the line entry i belongs to
LineOf(i) == 1 + Cardinality({g \in Gaps : g < i})

RECURSIVE TextsOfLine(_, _)
\* the texts of the entries from position i on that belong to line l
TextsOfLine(l, i) ==
    IF i > Len(all_subtitles) THEN <<>>
    ELSE (IF LineOf(i) = l THEN all_subtitles[i].text ELSE <<>>)
             \o TextsOfLine(l, i + 1)

\* C19: the text file breaks the line exactly after the entries followed
\* by a gap above 1.0 s: a non-empty track gives one line more than it has
\* such gaps, each line is the texts of its entries joined without
\* separator, and the lines joined in order are all the texts in order.
Thm_C19 ==
    File("cwd", "txt") \in out_files \/ File("temp", "txt") \in out_files
        \/ run_pc \in {"step4", "done"}
        => /\ all_subtitles = <<>> => txt_file = <<>>
           /\ all_subtitles # <<>> => Len(txt_file) = Cardinality(Gaps) + 1
           /\ \A l \in 1..Len(txt_file) : txt_file[l] = TextsOfLine(l, 1)
           /\ Join(txt_file) =
                  Join([i \in 1..Len(all_subtitles) |-> all_subtitles[i].text])

\* a track with a gap of exactly 1.0 s (no break) followed by a gap of
\* 1.0001 s (break) has been written
Wit_C19 ==
    /\ File("cwd", "txt") \in out_files
    /\ Len(all_subtitles) = 3
    /\ Gap(1) = Sec(1)
    /\ Gap(2) = Sec(1) + 1
    /\ Len(txt_file) = 2
    /\ txt_file[1] = all_subtitles[1].text \o all_subtitles[2].text

-----------------------------------------------------------------------------
(* Properties of the prompt store, checked under SpecPrompt *)

\* C20: whatever the store held, the list save_prompt(p) returns contains
\* p, the stored state then loads a list containing p, and every call of
\* load_saved_prompts after it returns a list containing p.
Thm_C20 ==
    [][/\ \A p \in saved' :
             /\ Contains(ret', p)
             /\ Contains(load_saved_prompts(prompt_file'), p)
       /\ (loaded' # loaded) => \A p \in saved : Contains(loaded', p)
      ]_vars

\* from an absent file two prompts outside the defaults were saved and the
\* store was loaded afterwards
Wit_C20 ==
    /\ saved = {"prompt A", "prompt B"}
    /\ prompt_file.exists
    /\ Len(prompt_file.list) = Len(DefaultPrompts) + 2
    /\ loaded = prompt_file.list
    /\ Contains(ret, "prompt A") /\ Contains(ret, "prompt B")

\* how many times x occurs in a list
Count(list, x) == Cardinality({i \in 1..Len(list) : list[i] = x})

\* the list the store holds, as load_saved_prompts reads it
StoredList == load_saved_prompts(prompt_file)

\* C24: save_prompt(p) with p in the stored list leaves the store as it
\* was (an absent file stays absent) and returns that list; otherwise p is
\* added once at the end; in both cases the earlier prompts keep their
\* places, and in a store without repeated entries every saved prompt
\* occurs exactly once.
Thm_C24 ==
    [][/\ \A p \in PromptVals :
             SavePrompt(p)
                 => /\ Count(StoredList, p) > 0
                          => (prompt_file' = prompt_file /\ ret' = StoredList)
                    /\ Count(StoredList, p) = 0
                          => StoredList' = Append(StoredList, p)
                    /\ Count(StoredList', p) = Count(ret', p)
                    /\ SubSeq(StoredList', 1, Len(StoredList)) = StoredList
                    /\ Len(StoredList') <= Len(StoredList) + 1
       /\ (\A q \in PromptVals : Count(StoredList', q) <= 1)
             => \A p \in saved' : Count(StoredList', p) = 1
      ]_vars

\* every prompt has been saved, one of them being a default prompt, from
\* an absent file; the two new ones stand once each after the defaults
Wit_C24 ==
    /\ saved = PromptVals
    /\ prompt_file = Stored(DefaultPrompts \o <<"prompt A", "prompt B">>)
    /\ ret = prompt_file.list
    /\ \A p \in saved : Count(prompt_file.list, p) = 1

====
